---- MODULE Spec2Model ----
(***************************************************************************)
(* State-machine model of the cw721-based fine-art token contract          *)
(* (src/src/execute.rs).  Storage items are variables, every ExecuteMsg    *)
(* variant is one action, and each handler is an operator that maps a      *)
(* storage snapshot and a call to a result, an updated snapshot and a      *)
(* Response.  The host commits the snapshot only when the handler returns  *)
(* Ok (all-or-nothing rollback).                                           *)
(***************************************************************************)
EXTENDS Integers, Sequences, FiniteSets, TLC

\* ---------------------------------------------------------------- bounds
MaxCap == 2          \* largest max_mints that instantiate / set_mint_config supply
MaxMinted == 2       \* successful mints recorded in one execution
MaxHeight == 2       \* last block height explored
MaxGrants == 2       \* approvals and operator grants kept in storage at once
MaxOperators == 1    \* operator grants kept in storage at once

\* ---------------------------------------------------------------- inputs
\* addresses the chain accepts; "m" is an administrator that sends no call itself
Addrs == {"a", "b", "c"}
ValidAddrs == Addrs \cup {"m"}
Extensions == {"ext"}
Payloads == {"payload"}

\* ------------------------------------------------------------ Expiration
Never == <<"Never", 0>>
NoExpiration == <<"None", 0>>
AtHeight(h) == <<"AtHeight", h>>
AtTime(t) == <<"AtTime", t>>

is_expired(e, blk) ==
  CASE e[1] = "AtHeight" -> blk.height >= e[2]
    [] e[1] = "AtTime" -> blk.time >= e[2]
    [] OTHER -> FALSE

unwrap_or_default(e) == IF e = NoExpiration THEN Never ELSE e


\* --------------------------------------------------------------- helpers
Digits == <<"0", "1", "2", "3", "4", "5", "6", "7", "8", "9">>

RECURSIVE u64ToString(_)
u64ToString(n) ==
  IF n < 10 THEN Digits[n + 1]
  ELSE u64ToString(n \div 10) \o Digits[(n % 10) + 1]

boolToString(b) == IF b THEN "true" ELSE "false"

coinToString(c) == u64ToString(c.amount) \o c.denom

Coin(d, a) == [denom |-> d, amount |-> a]

addr_validate(s) == [ok |-> s \in ValidAddrs, addr |-> s]

EmptyMap == [x \in {} |-> 0]
Put(f, k, v) == [x \in (DOMAIN f) \cup {k} |-> IF x = k THEN v ELSE f[x]]
Remove(f, k) == [x \in (DOMAIN f) \ {k} |-> f[x]]

NoResponse == [attributes |-> <<>>, messages |-> <<>>]
Err(kind, s) == [err |-> kind, st |-> s, resp |-> NoResponse]
\* Ok(value) of a helper that returns no Response of its own
Done(s) == [err |-> "Ok", st |-> s, resp |-> NoResponse]
Ok(s, attrs, msgs) == [err |-> "Ok", st |-> s, resp |-> [attributes |-> attrs, messages |-> msgs]]

NoToken == [owner |-> "", approvals |-> <<>>, token_uri |-> "", extension |-> ""]

\* ----------------------------------------------------------------- state
\* tokens          token id -> TokenInfo (the live records)
\* operators       (owner, operator) -> Expiration
\* token_count     the counter mint reads as next id and compares with max_mints
\* minter .. token_uri   the items instantiate saves
\* block           env.block of the call being executed
\* history kept for the properties, never read by a handler:
\* last            the latest call and its outcome
\* assigned        ids of the successful mints, in order
\* burned          ids of the successful burns
\* configured      set_mint_config has been called
\* init_max_mints  max_mints as given to instantiate
VARIABLES tokens, operators, token_count, minter, minting_allowed,
          max_mints, mint_price, token_uri, block,
          last, assigned, burned, configured, init_max_mints

storage == <<tokens, operators, token_count, minter, minting_allowed,
             max_mints, mint_price, token_uri>>
vars == <<tokens, operators, token_count, minter, minting_allowed,
          max_mints, mint_price, token_uri, block,
          last, assigned, burned, configured, init_max_mints>>

Store == [tokens |-> tokens, operators |-> operators, token_count |-> token_count,
          minter |-> minter, minting_allowed |-> minting_allowed,
          max_mints |-> max_mints, mint_price |-> mint_price, token_uri |-> token_uri]

\* ------------------------------------------------------- token counter
\* (state.rs: token_count reads the stored counter; update_token_count raises it
\*  after a mint and lowers it after a burn)
token_count_load(s) == s.token_count

update_token_count(s, increment) ==
  IF increment THEN Done([s EXCEPT !.token_count = @ + 1])
  ELSE IF s.token_count = 0 THEN Err("Std", s)
  ELSE Done([s EXCEPT !.token_count = @ - 1])

\* --------------------------------------------------------- authorization
approval_is_expired(apr, blk) == is_expired(apr.expires, blk)

\* check_can_approve that also honours a per-token approval, as the send check does
check_can_approve_with_approvals(s, blk, sender, token) ==
  IF token.owner = sender THEN "Ok"
  ELSE IF \E i \in 1..Len(token.approvals) :
            /\ token.approvals[i].spender = sender
            /\ ~approval_is_expired(token.approvals[i], blk)
       THEN "Ok"
  ELSE IF <<token.owner, sender>> \in DOMAIN s.operators
       THEN IF is_expired(s.operators[<<token.owner, sender>>], blk)
            THEN "Unauthorized" ELSE "Ok"
       ELSE "Unauthorized"

check_can_approve(s, blk, sender, token) ==
  IF token.owner = sender THEN "Ok"
  ELSE IF <<token.owner, sender>> \in DOMAIN s.operators
       THEN IF is_expired(s.operators[<<token.owner, sender>>], blk)
            THEN "Unauthorized" ELSE "Ok"
       ELSE "Unauthorized"

\* check_can_send that honours an approval whatever its expiration
check_can_send_ignoring_expiry(s, blk, sender, token) ==
  IF token.owner = sender THEN "Ok"
  ELSE IF \E i \in 1..Len(token.approvals) : token.approvals[i].spender = sender
       THEN "Ok"
  ELSE IF <<token.owner, sender>> \in DOMAIN s.operators
       THEN IF is_expired(s.operators[<<token.owner, sender>>], blk)
            THEN "Unauthorized" ELSE "Ok"
       ELSE "Unauthorized"

\* check_can_send that honours a grant naming sender as operator whoever made it
check_can_send_any_owner(s, blk, sender, token) ==
  IF token.owner = sender THEN "Ok"
  ELSE IF \E i \in 1..Len(token.approvals) :
            /\ token.approvals[i].spender = sender
            /\ ~approval_is_expired(token.approvals[i], blk)
       THEN "Ok"
  ELSE IF \E k \in DOMAIN s.operators : k[2] = sender /\ ~is_expired(s.operators[k], blk)
       THEN "Ok"
       ELSE "Unauthorized"

\* check_can_send that honours an operator grant whatever its expiration
check_can_send_ignoring_grant_expiry(s, blk, sender, token) ==
  IF token.owner = sender THEN "Ok"
  ELSE IF \E i \in 1..Len(token.approvals) :
            /\ token.approvals[i].spender = sender
            /\ ~approval_is_expired(token.approvals[i], blk)
       THEN "Ok"
  ELSE IF <<token.owner, sender>> \in DOMAIN s.operators
       THEN "Ok"
       ELSE "Unauthorized"

check_can_send(s, blk, sender, token) ==
  IF token.owner = sender THEN "Ok"
  ELSE IF \E i \in 1..Len(token.approvals) :
            /\ token.approvals[i].spender = sender
            /\ ~approval_is_expired(token.approvals[i], blk)
       THEN "Ok"
  ELSE IF <<token.owner, sender>> \in DOMAIN s.operators
       THEN IF is_expired(s.operators[<<token.owner, sender>>], blk)
            THEN "Unauthorized" ELSE "Ok"
       ELSE "Unauthorized"

\* -------------------------------------------------------------- handlers
instantiate(msg) ==
  [tokens |-> EmptyMap, operators |-> EmptyMap, token_count |-> 0,
   minter |-> addr_validate(msg.minter).addr, minting_allowed |-> TRUE,
   max_mints |-> msg.max_mints, mint_price |-> msg.mint_price,
   token_uri |-> msg.token_uri]

\* mint that compares only the first attached coin with the price
mint_first_coin_only(s, sender, funds, owner, extension) ==
  IF ~s.minting_allowed THEN Err("MintingDisabled", s)
  ELSE LET count == token_count_load(s) IN
    IF count >= s.max_mints THEN Err("MaxMintsReached", s)
    ELSE IF Len(funds) = 0 \/ funds[1] # s.mint_price THEN Err("IncorrectPayment", s)
    ELSE IF ~addr_validate(owner).ok THEN Err("Std", s)
    ELSE LET id == u64ToString(count)
             token == [owner |-> addr_validate(owner).addr, approvals |-> <<>>,
                       token_uri |-> s.token_uri, extension |-> extension]
         IN IF id \in DOMAIN s.tokens THEN Err("Claimed", s)
            ELSE LET s1 == [s EXCEPT !.tokens = Put(@, id, token)]
                     u == update_token_count(s1, TRUE)
                 IN IF u.err # "Ok" THEN Err(u.err, u.st)
                    ELSE Ok(u.st, << <<"action", "mint">>, <<"minter", sender>>,
                                     <<"token_id", id>> >>, <<>>)

\* mint that looks at the payment before it looks at the cap
mint_payment_first(s, sender, funds, owner, extension) ==
  IF ~s.minting_allowed THEN Err("MintingDisabled", s)
  ELSE LET count == token_count_load(s) IN
    IF Len(funds) # 1 \/ funds[1] # s.mint_price THEN Err("IncorrectPayment", s)
    ELSE IF count >= s.max_mints THEN Err("MaxMintsReached", s)
    ELSE IF ~addr_validate(owner).ok THEN Err("Std", s)
    ELSE LET id == u64ToString(count)
             token == [owner |-> addr_validate(owner).addr, approvals |-> <<>>,
                       token_uri |-> s.token_uri, extension |-> extension]
         IN IF id \in DOMAIN s.tokens THEN Err("Claimed", s)
            ELSE LET s1 == [s EXCEPT !.tokens = Put(@, id, token)]
                     u == update_token_count(s1, TRUE)
                 IN IF u.err # "Ok" THEN Err(u.err, u.st)
                    ELSE Ok(u.st, << <<"action", "mint">>, <<"minter", sender>>,
                                     <<"token_id", id>> >>, <<>>)

\* mint that raises the counter before it claims the id slot
mint_counting_first(s, sender, funds, owner, extension) ==
  IF ~s.minting_allowed THEN Err("MintingDisabled", s)
  ELSE LET count == token_count_load(s) IN
    IF count >= s.max_mints THEN Err("MaxMintsReached", s)
    ELSE IF Len(funds) # 1 \/ funds[1] # s.mint_price THEN Err("IncorrectPayment", s)
    ELSE IF ~addr_validate(owner).ok THEN Err("Std", s)
    ELSE LET id == u64ToString(count)
             token == [owner |-> addr_validate(owner).addr, approvals |-> <<>>,
                       token_uri |-> s.token_uri, extension |-> extension]
             u == update_token_count(s, TRUE)
         IN IF id \in DOMAIN u.st.tokens THEN Err("Claimed", u.st)
            ELSE Ok([u.st EXCEPT !.tokens = Put(@, id, token)],
                    << <<"action", "mint">>, <<"minter", sender>>,
                       <<"token_id", id>> >>, <<>>)

mint(s, sender, funds, owner, extension) ==
  IF ~s.minting_allowed THEN Err("MintingDisabled", s)
  ELSE LET count == token_count_load(s) IN
    IF count >= s.max_mints THEN Err("MaxMintsReached", s)
    ELSE IF Len(funds) # 1 \/ funds[1] # s.mint_price THEN Err("IncorrectPayment", s)
    ELSE IF ~addr_validate(owner).ok THEN Err("Std", s)
    ELSE LET id == u64ToString(count)
             token == [owner |-> addr_validate(owner).addr, approvals |-> <<>>,
                       token_uri |-> s.token_uri, extension |-> extension]
         IN IF id \in DOMAIN s.tokens THEN Err("Claimed", s)
            ELSE LET s1 == [s EXCEPT !.tokens = Put(@, id, token)]
                     u == update_token_count(s1, TRUE)
                 IN IF u.err # "Ok" THEN Err(u.err, u.st)
                    ELSE Ok(u.st, << <<"action", "mint">>, <<"minter", sender>>,
                                     <<"token_id", id>> >>, <<>>)

set_mint_config(s, sender, price, max) ==
  IF sender # s.minter THEN Err("Unauthorized", s)
  ELSE Ok([s EXCEPT !.mint_price = price, !.max_mints = max],
          << <<"action", "set_mint_config">>, <<"price", coinToString(price)>>,
             <<"max_mints", u64ToString(max)>> >>, <<>>)

\* toggle_minting that skips the minter check
toggle_minting_by_anyone(s, sender) ==
  Ok([s EXCEPT !.minting_allowed = ~@],
     << <<"action", "toggle_minting">>,
        <<"minting_allowed", boolToString(~s.minting_allowed)>> >>, <<>>)

toggle_minting(s, sender) ==
  IF sender # s.minter THEN Err("Unauthorized", s)
  ELSE Ok([s EXCEPT !.minting_allowed = ~@],
          << <<"action", "toggle_minting">>,
             <<"minting_allowed", boolToString(~s.minting_allowed)>> >>, <<>>)

\* _transfer_nft that changes the owner and keeps the approvals
_transfer_nft_keeping_approvals(s, blk, sender, recipient, token_id) ==
  IF token_id \notin DOMAIN s.tokens THEN Err("Std", s)
  ELSE LET token == s.tokens[token_id] IN
    IF check_can_send(s, blk, sender, token) # "Ok" THEN Err("Unauthorized", s)
    ELSE IF ~addr_validate(recipient).ok THEN Err("Std", s)
    ELSE Done([s EXCEPT !.tokens[token_id] =
                      [token EXCEPT !.owner = addr_validate(recipient).addr]])

_transfer_nft(s, blk, sender, recipient, token_id) ==
  IF token_id \notin DOMAIN s.tokens THEN Err("Std", s)
  ELSE LET token == s.tokens[token_id] IN
    IF check_can_send(s, blk, sender, token) # "Ok" THEN Err("Unauthorized", s)
    ELSE IF ~addr_validate(recipient).ok THEN Err("Std", s)
    ELSE Done([s EXCEPT !.tokens[token_id] =
                      [token EXCEPT !.owner = addr_validate(recipient).addr,
                                    !.approvals = <<>>]])

\* _update_approvals that appends without removing the spender's earlier entry
_update_approvals_appending(s, blk, sender, spender, token_id, add, expires) ==
  IF token_id \notin DOMAIN s.tokens THEN Err("Std", s)
  ELSE LET token == s.tokens[token_id] IN
    IF check_can_approve(s, blk, sender, token) # "Ok" THEN Err("Unauthorized", s)
    ELSE IF ~addr_validate(spender).ok THEN Err("Std", s)
    ELSE LET spender_addr == addr_validate(spender).addr
             kept == SelectSeq(token.approvals, LAMBDA apr : apr.spender # spender_addr)
             exp == unwrap_or_default(expires)
         IN IF add /\ is_expired(exp, blk) THEN Err("Expired", s)
            ELSE Done([s EXCEPT !.tokens[token_id].approvals =
                       IF add THEN Append(token.approvals, [spender |-> spender_addr, expires |-> exp])
                       ELSE kept])

_update_approvals(s, blk, sender, spender, token_id, add, expires) ==
  IF token_id \notin DOMAIN s.tokens THEN Err("Std", s)
  ELSE LET token == s.tokens[token_id] IN
    IF check_can_approve(s, blk, sender, token) # "Ok" THEN Err("Unauthorized", s)
    ELSE IF ~addr_validate(spender).ok THEN Err("Std", s)
    ELSE LET spender_addr == addr_validate(spender).addr
             kept == SelectSeq(token.approvals, LAMBDA apr : apr.spender # spender_addr)
             exp == unwrap_or_default(expires)
         IN IF add /\ is_expired(exp, blk) THEN Err("Expired", s)
            ELSE Done([s EXCEPT !.tokens[token_id].approvals =
                       IF add THEN Append(kept, [spender |-> spender_addr, expires |-> exp])
                       ELSE kept])

transfer_nft(s, blk, sender, recipient, token_id) ==
  LET r == _transfer_nft(s, blk, sender, recipient, token_id) IN
  IF r.err # "Ok" THEN r
  ELSE Ok(r.st, << <<"action", "transfer_nft">>, <<"sender", sender>>,
                   <<"recipient", recipient>>, <<"token_id", token_id>> >>, <<>>)

\* send_nft that addresses the receiver notification to the caller
send_nft_notifying_sender(s, blk, sender, contract, token_id, msg) ==
  LET r == _transfer_nft(s, blk, sender, contract, token_id) IN
  IF r.err # "Ok" THEN r
  ELSE Ok(r.st, << <<"action", "send_nft">>, <<"sender", sender>>,
                   <<"recipient", contract>>, <<"token_id", token_id>> >>,
          << [contract_addr |-> sender, sender |-> sender,
              token_id |-> token_id, msg |-> msg] >>)

send_nft(s, blk, sender, contract, token_id, msg) ==
  LET r == _transfer_nft(s, blk, sender, contract, token_id) IN
  IF r.err # "Ok" THEN r
  ELSE Ok(r.st, << <<"action", "send_nft">>, <<"sender", sender>>,
                   <<"recipient", contract>>, <<"token_id", token_id>> >>,
          << [contract_addr |-> contract, sender |-> sender,
              token_id |-> token_id, msg |-> msg] >>)

approve(s, blk, sender, spender, token_id, expires) ==
  LET r == _update_approvals(s, blk, sender, spender, token_id, TRUE, expires) IN
  IF r.err # "Ok" THEN r
  ELSE Ok(r.st, << <<"action", "approve">>, <<"sender", sender>>,
                   <<"spender", spender>>, <<"token_id", token_id>> >>, <<>>)

revoke(s, blk, sender, spender, token_id) ==
  LET r == _update_approvals(s, blk, sender, spender, token_id, FALSE, NoExpiration) IN
  IF r.err # "Ok" THEN r
  ELSE Ok(r.st, << <<"action", "revoke">>, <<"sender", sender>>,
                   <<"spender", spender>>, <<"token_id", token_id>> >>, <<>>)

\* approve_all that stores the grant without looking at its expiration
approve_all_unchecked(s, blk, sender, operator, expires) ==
  LET exp == unwrap_or_default(expires) IN
  IF ~addr_validate(operator).ok THEN Err("Std", s)
  ELSE Ok([s EXCEPT !.operators = Put(@, <<sender, addr_validate(operator).addr>>, exp)],
          << <<"action", "approve_all">>, <<"sender", sender>>,
             <<"operator", operator>> >>, <<>>)

approve_all(s, blk, sender, operator, expires) ==
  LET exp == unwrap_or_default(expires) IN
  IF is_expired(exp, blk) THEN Err("Expired", s)
  ELSE IF ~addr_validate(operator).ok THEN Err("Std", s)
  ELSE Ok([s EXCEPT !.operators = Put(@, <<sender, addr_validate(operator).addr>>, exp)],
          << <<"action", "approve_all">>, <<"sender", sender>>,
             <<"operator", operator>> >>, <<>>)

\* revoke_all that removes the grant the named address made to the caller
revoke_all_of_operator(s, sender, operator) ==
  IF ~addr_validate(operator).ok THEN Err("Std", s)
  ELSE Ok([s EXCEPT !.operators = Remove(@, <<addr_validate(operator).addr, sender>>)],
          << <<"action", "revoke_all">>, <<"sender", sender>>,
             <<"operator", operator>> >>, <<>>)

revoke_all(s, sender, operator) ==
  IF ~addr_validate(operator).ok THEN Err("Std", s)
  ELSE Ok([s EXCEPT !.operators = Remove(@, <<sender, addr_validate(operator).addr>>)],
          << <<"action", "revoke_all">>, <<"sender", sender>>,
             <<"operator", operator>> >>, <<>>)

\* burn that removes the record and leaves the counter alone
burn_keeping_count(s, blk, sender, token_id) ==
  IF token_id \notin DOMAIN s.tokens THEN Err("Std", s)
  ELSE LET token == s.tokens[token_id] IN
    IF check_can_send(s, blk, sender, token) # "Ok" THEN Err("Unauthorized", s)
    ELSE Ok([s EXCEPT !.tokens = Remove(@, token_id)],
            << <<"action", "burn">>, <<"sender", sender>>,
               <<"token_id", token_id>> >>, <<>>)

burn(s, blk, sender, token_id) ==
  IF token_id \notin DOMAIN s.tokens THEN Err("Std", s)
  ELSE LET token == s.tokens[token_id] IN
    IF check_can_send(s, blk, sender, token) # "Ok" THEN Err("Unauthorized", s)
    ELSE LET s1 == [s EXCEPT !.tokens = Remove(@, token_id)]
             u == update_token_count(s1, FALSE)
         IN IF u.err # "Ok" THEN Err(u.err, u.st)
            ELSE Ok(u.st, << <<"action", "burn">>, <<"sender", sender>>,
                             <<"token_id", token_id>> >>, <<>>)

\* ---------------------------------------------------------- call inputs
\* ("" is a string addr_validate rejects; an id with no record is met whenever
\*  the token is not minted yet or already burned)
OwnerInputs == {"a", ""}
RecipientInputs == {"b", ""}
SpenderInputs == {"b", "c", ""}
OperatorInputs == {"c", ""}
\* block 2 (height 2, time 4) is the block at which both expirations elapse
ApproveExpires == {NoExpiration, AtHeight(2)}
ApproveAllExpires == {NoExpiration, AtTime(4)}
TokenIds == {u64ToString(i) : i \in 0..(MaxCap - 1)}
PriceInputs == {Coin("uom", 20)}
FundsInputs == {<<>>, <<Coin("uom", 10)>>, <<Coin("uom", 20)>>, <<Coin("uatom", 10)>>,
                <<Coin("uom", 10), Coin("uom", 10)>>}

RECURSIVE SumApprovals(_, _)
SumApprovals(tk, ids) ==
  IF ids = {} THEN 0
  ELSE LET i == CHOOSE x \in ids : TRUE
       IN Len(tk[i].approvals) + SumApprovals(tk, ids \ {i})

\* number of approvals and operator grants a storage snapshot holds
Grants(s) == SumApprovals(s.tokens, DOMAIN s.tokens) + Cardinality(DOMAIN s.operators)

\* which rule of the send-class check lets sender act on token, if any
SendAuthority(ops, blk, sender, token) ==
  IF token.owner = sender THEN "owner"
  ELSE IF \E i \in 1..Len(token.approvals) :
            /\ token.approvals[i].spender = sender
            /\ ~is_expired(token.approvals[i].expires, blk)
       THEN "approval"
  ELSE IF /\ <<token.owner, sender>> \in DOMAIN ops
          /\ ~is_expired(ops[<<token.owner, sender>>], blk)
       THEN "operator"
  ELSE "none"

HasEntry(token, spender) == \E i \in 1..Len(token.approvals) : token.approvals[i].spender = spender

\* the call executed by the latest step and its outcome
Call(op, r, note) == [op |-> op, err |-> r.err, note |-> IF r.err = "Ok" THEN note ELSE ""]

\* the host keeps the writes of a call that returned Ok and drops all others
Commit(r) ==
  IF r.err = "Ok"
  THEN /\ tokens' = r.st.tokens
       /\ operators' = r.st.operators
       /\ token_count' = r.st.token_count
       /\ minter' = r.st.minter
       /\ minting_allowed' = r.st.minting_allowed
       /\ max_mints' = r.st.max_mints
       /\ mint_price' = r.st.mint_price
       /\ token_uri' = r.st.token_uri
  ELSE UNCHANGED storage

Instantiated(minters, maxes) ==
  \E m \in minters, mm \in maxes :
    LET s == instantiate([name |-> "art", symbol |-> "ART", minter |-> m,
                          max_mints |-> mm, mint_price |-> Coin("uom", 10),
                          token_uri |-> "uri"])
    IN /\ tokens = s.tokens
       /\ operators = s.operators
       /\ token_count = s.token_count
       /\ minter = s.minter
       /\ minting_allowed = s.minting_allowed
       /\ max_mints = s.max_mints
       /\ mint_price = s.mint_price
       /\ token_uri = s.token_uri
       /\ block = [height |-> 1, time |-> 2]
       /\ last = Call("instantiate", Done(s), "")
       /\ assigned = <<>>
       /\ burned = {}
       /\ configured = FALSE
       /\ init_max_mints = mm

\* the administrator is an outside account: the mint policy stays as instantiated
Init == Instantiated({"m"}, {MaxCap})

\* the administrator is one of the callers
InitMint == Instantiated({"a"}, 1..MaxCap)

Mint ==
  \E sender \in Addrs, funds \in FundsInputs, owner \in OwnerInputs, ext \in Extensions :
    \E r \in {mint(Store, sender, funds, owner, ext)} :
    /\ r.err = "Ok" => Len(assigned) < MaxMinted
    /\ Commit(r)
    /\ last' = Call("mint", r, "")
    /\ assigned' = IF r.err = "Ok" THEN Append(assigned, r.resp.attributes[3][2]) ELSE assigned
    /\ UNCHANGED <<block, burned, configured, init_max_mints>>

SetMintConfig ==
  \E sender \in Addrs, price \in PriceInputs, max \in 1..MaxCap :
    \E r \in {set_mint_config(Store, sender, price, max)} :
    /\ Commit(r)
    /\ last' = Call("set_mint_config", r, "")
    /\ configured' = TRUE
    /\ UNCHANGED <<block, assigned, burned, init_max_mints>>

ToggleMinting ==
  \E sender \in Addrs :
    \E r \in {toggle_minting(Store, sender)} :
    /\ Commit(r)
    /\ last' = Call("toggle_minting", r, "")
    /\ UNCHANGED <<block, assigned, burned, configured, init_max_mints>>

Approve(cap) ==
  \E sender \in Addrs, spender \in SpenderInputs, token_id \in TokenIds, expires \in ApproveExpires :
    \E r \in {approve(Store, block, sender, spender, token_id, expires)} :
    /\ r.err = "Ok" => Grants(r.st) <= cap
    /\ Commit(r)
    /\ last' = Call("approve", r, IF token_id \in DOMAIN tokens /\ HasEntry(tokens[token_id], spender)
                                  THEN "replaced" ELSE "added")
    /\ UNCHANGED <<block, assigned, burned, configured, init_max_mints>>

Revoke ==
  \E sender \in Addrs, spender \in SpenderInputs, token_id \in TokenIds :
    \E r \in {revoke(Store, block, sender, spender, token_id)} :
    /\ Commit(r)
    /\ last' = Call("revoke", r, "")
    /\ UNCHANGED <<block, assigned, burned, configured, init_max_mints>>

ApproveAll(cap) ==
  \E sender \in Addrs, operator \in OperatorInputs, expires \in ApproveAllExpires :
    \E r \in {approve_all(Store, block, sender, operator, expires)} :
    /\ r.err = "Ok" => (Grants(r.st) <= cap /\ Cardinality(DOMAIN r.st.operators) <= MaxOperators)
    /\ Commit(r)
    /\ last' = Call("approve_all", r, "")
    /\ UNCHANGED <<block, assigned, burned, configured, init_max_mints>>

RevokeAll ==
  \E sender \in Addrs, operator \in OperatorInputs :
    \E r \in {revoke_all(Store, sender, operator)} :
    /\ Commit(r)
    /\ last' = Call("revoke_all", r, "")
    /\ UNCHANGED <<block, assigned, burned, configured, init_max_mints>>

TransferNft ==
  \E sender \in Addrs, recipient \in RecipientInputs, token_id \in TokenIds :
    \E r \in {transfer_nft(Store, block, sender, recipient, token_id)} :
    /\ Commit(r)
    /\ last' = Call("transfer_nft", r, IF token_id \in DOMAIN tokens
                    THEN SendAuthority(operators, block, sender, tokens[token_id]) ELSE "")
    /\ UNCHANGED <<block, assigned, burned, configured, init_max_mints>>

SendNft ==
  \E sender \in Addrs, contract \in RecipientInputs, token_id \in TokenIds, msg \in Payloads :
    \E r \in {send_nft(Store, block, sender, contract, token_id, msg)} :
    /\ Commit(r)
    /\ last' = Call("send_nft", r, IF token_id \in DOMAIN tokens
                    THEN SendAuthority(operators, block, sender, tokens[token_id]) ELSE "")
    /\ UNCHANGED <<block, assigned, burned, configured, init_max_mints>>

Burn ==
  \E sender \in Addrs, token_id \in TokenIds :
    \E r \in {burn(Store, block, sender, token_id)} :
    /\ Commit(r)
    /\ last' = Call("burn", r, IF token_id \in DOMAIN tokens
                    THEN SendAuthority(operators, block, sender, tokens[token_id]) ELSE "")
    /\ burned' = IF r.err = "Ok" THEN burned \cup {token_id} ELSE burned
    /\ UNCHANGED <<block, assigned, configured, init_max_mints>>

\* the chain produces the next block between two calls
AdvanceBlock ==
  /\ block.height < MaxHeight
  /\ block' = [height |-> block.height + 1, time |-> block.time + 2]
  /\ last' = Call("advance_block", Done(Store), "")
  /\ UNCHANGED <<storage, assigned, burned, configured, init_max_mints>>

Next ==
  \/ Mint
  \/ SetMintConfig
  \/ ToggleMinting
  \/ Approve(MaxGrants)
  \/ Revoke
  \/ ApproveAll(MaxGrants)
  \/ RevokeAll
  \/ TransferNft
  \/ SendNft
  \/ Burn
  \/ AdvanceBlock

\* executions in which no approval or operator grant is ever stored
NextMint ==
  \/ Mint
  \/ SetMintConfig
  \/ ToggleMinting
  \/ Approve(0)
  \/ Revoke
  \/ ApproveAll(0)
  \/ RevokeAll
  \/ TransferNft
  \/ SendNft
  \/ Burn
  \/ AdvanceBlock

Spec == Init /\ [][Next]_vars

SpecMint == InitMint /\ [][NextMint]_vars

\* ------------------------------------------------------------------ claims
ExactPayment(funds) == Len(funds) = 1 /\ funds[1] = mint_price

Ids(seq) == {seq[i] : i \in 1..Len(seq)}

NoDuplicateSpender(approvals) ==
  \A i, j \in 1..Len(approvals) : approvals[i].spender = approvals[j].spender => i = j

\* C1: in every reachable state and at every block, transfer_nft, send_nft and burn
\* of an existing token (with a valid recipient) succeed when the caller is the
\* owner, or holds an approval on the token that is not expired, or holds an
\* operator grant from the owner that is not expired; every other caller gets
\* Unauthorized.
C1_SendAuthority ==
  \A sender \in Addrs, id \in DOMAIN tokens, rcpt \in ValidAddrs :
    LET want == IF SendAuthority(operators, block, sender, tokens[id]) # "none"
                THEN "Ok" ELSE "Unauthorized"
    IN /\ transfer_nft(Store, block, sender, rcpt, id).err = want
       /\ \A msg \in Payloads : send_nft(Store, block, sender, rcpt, id, msg).err = want
       /\ burn(Store, block, sender, id).err = want

\* a token was just burned by a caller whose only authority was an operator grant,
\* in the block in which dated grants have run out
C1_Witness ==
  /\ last.op = "burn" /\ last.err = "Ok" /\ last.note = "operator"
  /\ block.height = 2

\* C2: a successful transfer_nft or send_nft of token t makes the recipient the
\* owner of t, empties t's approvals and changes neither the operator grants, nor
\* any other token record, nor the mint policy.
C2_TransferFrame ==
  \A sender \in Addrs, rcpt \in ValidAddrs, id \in TokenIds, msg \in Payloads :
    \A r \in {transfer_nft(Store, block, sender, rcpt, id),
              send_nft(Store, block, sender, rcpt, id, msg)} :
      r.err = "Ok" =>
        /\ DOMAIN r.st.tokens = DOMAIN tokens
        /\ r.st.tokens[id].owner = rcpt
        /\ r.st.tokens[id].approvals = <<>>
        /\ \A o \in DOMAIN tokens \ {id} : r.st.tokens[o] = tokens[o]
        /\ r.st.operators = operators
        /\ r.st.minter = minter
        /\ r.st.minting_allowed = minting_allowed
        /\ r.st.max_mints = max_mints
        /\ r.st.mint_price = mint_price
        /\ r.st.token_uri = token_uri

\* an approved spender just sent one of two tokens away while an operator grant
\* was stored
C2_Witness ==
  /\ last.op = "send_nft" /\ last.err = "Ok" /\ last.note = "approval"
  /\ Cardinality(DOMAIN tokens) = 2
  /\ DOMAIN operators # {}

\* C3: the k-th successful mint since instantiation is assigned the id k-1,
\* rendered as a string, so ids are strictly increasing from 0, and it raises
\* token_count by exactly 1.
C3_SequentialIds ==
  [][assigned' # assigned =>
       /\ assigned'[Len(assigned')] = u64ToString(Len(assigned))
       /\ token_count' = token_count + 1]_vars

\* C4: token_count is the number of successful mints since instantiation, and the
\* ids assigned so far are pairwise distinct and are exactly 0 .. token_count-1.
C4_CountIsMintsPerformed ==
  /\ token_count = Len(assigned)
  /\ \A i, j \in 1..Len(assigned) : assigned[i] = assigned[j] => i = j
  /\ Ids(assigned) = {u64ToString(k) : k \in 0..(token_count - 1)}

\* C5: a mint is never assigned an id that was burned before.
C5_BurnedIdNeverReused ==
  [][assigned' # assigned => assigned'[Len(assigned')] \notin burned]_vars

\* C6: while set_mint_config has not been called, the number of successful mints
\* since instantiation (burned tokens included) is at most the max_mints given at
\* instantiation.
C6_MintCap ==
  ~configured => Len(assigned) <= init_max_mints

\* C7: once max_mints tokens have been minted, a mint attempt fails with
\* MaxMintsReached whatever the payment (minting being allowed, the check that
\* precedes the cap check).
C7_MaxMintsReached ==
  (minting_allowed /\ Len(assigned) >= max_mints) =>
    \A sender \in Addrs, funds \in FundsInputs, owner \in OwnerInputs, ext \in Extensions :
      mint(Store, sender, funds, owner, ext).err = "MaxMintsReached"

\* C8 as stated: a mint whose funds are not exactly one coin equal to mint_price
\* fails with IncorrectPayment and writes neither token_count nor the token map.
C8_IncorrectPaymentAlways ==
  \A sender \in Addrs, funds \in FundsInputs, owner \in OwnerInputs, ext \in Extensions :
    ~ExactPayment(funds) =>
      LET r == mint(Store, sender, funds, owner, ext)
      IN /\ r.err = "IncorrectPayment"
         /\ r.st.token_count = token_count
         /\ r.st.tokens = tokens

\* C8 as amended: such a mint always fails and writes neither token_count nor the
\* token map; the error is IncorrectPayment when minting is allowed and the count
\* is below max_mints, and otherwise the error of the earlier check
\* (MintingDisabled, then MaxMintsReached).
C8_IncorrectPayment ==
  \A sender \in Addrs, funds \in FundsInputs, owner \in OwnerInputs, ext \in Extensions :
    ~ExactPayment(funds) =>
      LET r == mint(Store, sender, funds, owner, ext)
      IN /\ r.err = IF ~minting_allowed THEN "MintingDisabled"
                    ELSE IF token_count >= max_mints THEN "MaxMintsReached"
                    ELSE "IncorrectPayment"
         /\ r.st.token_count = token_count
         /\ r.st.tokens = tokens

\* a mint was just refused for its payment, after one token had been minted
C8_Witness ==
  /\ last.op = "mint" /\ last.err = "IncorrectPayment"
  /\ minting_allowed /\ token_count = 1 /\ max_mints = 2

\* C9: no approvals list holds two entries for one spender; a successful approve
\* leaves exactly one entry for the spender, carrying the expiration just given,
\* and keeps the entries of the other spenders.
C9_OneApprovalPerSpender ==
  /\ \A id \in DOMAIN tokens : NoDuplicateSpender(tokens[id].approvals)
  /\ \A sender \in Addrs, spender \in SpenderInputs, id \in TokenIds, expires \in ApproveExpires :
       LET r == approve(Store, block, sender, spender, id, expires)
           new == r.st.tokens[id].approvals
           others(list) == SelectSeq(list, LAMBDA apr : apr.spender # spender)
       IN r.err = "Ok" =>
            /\ Cardinality({i \in 1..Len(new) : new[i].spender = spender}) = 1
            /\ \E i \in 1..Len(new) :
                 new[i] = [spender |-> spender, expires |-> unwrap_or_default(expires)]
            /\ others(new) = others(tokens[id].approvals)

\* an approve just replaced the spender's entry on a token that has two entries
C9_Witness ==
  /\ last.op = "approve" /\ last.err = "Ok" /\ last.note = "replaced"
  /\ \E id \in DOMAIN tokens : Len(tokens[id].approvals) = 2

\* C10 as stated: approve (of an existing token, for a valid spender) and
\* approve_all with an expiration that has elapsed at the current block fail with
\* Expired and write nothing; an omitted expiration is never rejected as expired.
C10_ExpiredAlways ==
  /\ \A sender \in Addrs, spender \in SpenderInputs \cap ValidAddrs, id \in DOMAIN tokens,
        expires \in ApproveExpires :
       LET r == approve(Store, block, sender, spender, id, expires)
       IN IF is_expired(unwrap_or_default(expires), block)
          THEN r.err = "Expired" /\ r.st = Store
          ELSE r.err # "Expired"
  /\ \A sender \in Addrs, operator \in OperatorInputs, expires \in ApproveAllExpires :
       LET r == approve_all(Store, block, sender, operator, expires)
       IN IF is_expired(unwrap_or_default(expires), block)
          THEN r.err = "Expired" /\ r.st = Store
          ELSE r.err # "Expired"

\* C10 as amended: approve_all with an elapsed expiration fails with Expired;
\* approve with an elapsed expiration fails with Expired when the token exists,
\* the caller may approve and the spender is a valid address, and with the error
\* of the failing earlier check otherwise; either way nothing is written, and an
\* omitted expiration stands for "never" and is never rejected as expired.
C10_Expired ==
  /\ \A sender \in Addrs, spender \in SpenderInputs, id \in TokenIds, expires \in ApproveExpires :
       LET r == approve(Store, block, sender, spender, id, expires)
       IN IF is_expired(unwrap_or_default(expires), block)
          THEN /\ r.st = Store
               /\ r.err = IF id \notin DOMAIN tokens THEN "Std"
                          ELSE IF /\ tokens[id].owner # sender
                                  /\ ~(/\ <<tokens[id].owner, sender>> \in DOMAIN operators
                                       /\ ~is_expired(operators[<<tokens[id].owner, sender>>], block))
                               THEN "Unauthorized"
                          ELSE IF spender \notin ValidAddrs THEN "Std"
                          ELSE "Expired"
          ELSE /\ r.err # "Expired"
               /\ (r.err = "Ok" /\ expires = NoExpiration) =>
                    \E i \in 1..Len(r.st.tokens[id].approvals) :
                      r.st.tokens[id].approvals[i] = [spender |-> spender, expires |-> Never]
  /\ \A sender \in Addrs, operator \in OperatorInputs, expires \in ApproveAllExpires :
       LET r == approve_all(Store, block, sender, operator, expires)
       IN IF is_expired(unwrap_or_default(expires), block)
          THEN r.err = "Expired" /\ r.st = Store
          ELSE /\ r.err # "Expired"
               /\ (r.err = "Ok" /\ expires = NoExpiration) =>
                    r.st.operators[<<sender, operator>>] = Never

\* an approve was just refused as expired on a token that keeps its earlier entry
C10_Witness ==
  /\ last.op = "approve" /\ last.err = "Expired"
  /\ \E id \in DOMAIN tokens : tokens[id].approvals # <<>>

\* every call a caller can make in the current state, with its result:
\* P(op, sender, r) holds of all of them
AnyAddr == ValidAddrs \cup {""}

ForAllCalls(P(_, _, _)) ==
  /\ \A sender \in Addrs, funds \in FundsInputs, owner \in AnyAddr, ext \in Extensions :
       P("mint", sender, mint(Store, sender, funds, owner, ext))
  /\ \A sender \in Addrs, price \in PriceInputs, max \in 0..MaxCap :
       P("set_mint_config", sender, set_mint_config(Store, sender, price, max))
  /\ \A sender \in Addrs :
       P("toggle_minting", sender, toggle_minting(Store, sender))
  /\ \A sender \in Addrs, spender \in AnyAddr, id \in TokenIds, expires \in ApproveExpires :
       P("approve", sender, approve(Store, block, sender, spender, id, expires))
  /\ \A sender \in Addrs, spender \in AnyAddr, id \in TokenIds :
       P("revoke", sender, revoke(Store, block, sender, spender, id))
  /\ \A sender \in Addrs, operator \in AnyAddr, expires \in ApproveAllExpires :
       P("approve_all", sender, approve_all(Store, block, sender, operator, expires))
  /\ \A sender \in Addrs, operator \in AnyAddr :
       P("revoke_all", sender, revoke_all(Store, sender, operator))
  /\ \A sender \in Addrs, rcpt \in AnyAddr, id \in TokenIds :
       P("transfer_nft", sender, transfer_nft(Store, block, sender, rcpt, id))
  /\ \A sender \in Addrs, rcpt \in AnyAddr, id \in TokenIds, msg \in Payloads :
       P("send_nft", sender, send_nft(Store, block, sender, rcpt, id, msg))
  /\ \A sender \in Addrs, id \in TokenIds :
       P("burn", sender, burn(Store, block, sender, id))

\* C11: set_mint_config and toggle_minting succeed exactly for the stored minter;
\* any other caller gets Unauthorized and mint_price, max_mints and
\* minting_allowed stay as they are; no operation writes the stored minter.
C11_AdminOnly ==
  /\ \A sender \in Addrs, price \in PriceInputs, max \in 0..MaxCap :
       LET r == set_mint_config(Store, sender, price, max)
       IN IF sender = minter
          THEN r.err = "Ok" /\ r.st.mint_price = price /\ r.st.max_mints = max
          ELSE r.err = "Unauthorized" /\ r.st = Store
  /\ \A sender \in Addrs :
       LET r == toggle_minting(Store, sender)
       IN IF sender = minter
          THEN r.err = "Ok" /\ r.st.minting_allowed = ~minting_allowed
          ELSE r.err = "Unauthorized" /\ r.st = Store
  /\ ForAllCalls(LAMBDA op, sender, r : r.st.minter = minter)

\* a caller other than the minter was just refused while the policy differs from
\* the instantiated one (the minter had changed it before)
C11_Witness ==
  /\ last.op = "toggle_minting" /\ last.err = "Unauthorized"
  /\ ~minting_allowed /\ configured /\ mint_price = Coin("uom", 20)

\* sender owns token or holds a grant from its owner that has not expired at blk
MayApprove(sender, token) ==
  \/ token.owner = sender
  \/ /\ <<token.owner, sender>> \in DOMAIN operators
     /\ ~is_expired(operators[<<token.owner, sender>>], block)

\* C12: on an existing token, approve (with an expiration that has not elapsed)
\* and revoke succeed exactly for the owner and for a holder of a non-expired
\* operator grant from the owner; anyone else, a spender with a non-expired
\* per-token approval included, gets Unauthorized and writes nothing.
C12_ApproveAuthority ==
  \A id \in DOMAIN tokens, sender \in Addrs, spender \in ValidAddrs :
    LET rv == revoke(Store, block, sender, spender, id) IN
    /\ rv.err = IF MayApprove(sender, tokens[id]) THEN "Ok" ELSE "Unauthorized"
    /\ rv.err = "Unauthorized" => rv.st = Store
    /\ \A expires \in ApproveExpires :
         LET ap == approve(Store, block, sender, spender, id, expires) IN
         /\ ~is_expired(unwrap_or_default(expires), block) =>
              ap.err = IF MayApprove(sender, tokens[id]) THEN "Ok" ELSE "Unauthorized"
         /\ ~MayApprove(sender, tokens[id]) => ap.err = "Unauthorized" /\ ap.st = Store
         /\ (/\ SendAuthority(operators, block, sender, tokens[id]) = "approval"
             /\ ~MayApprove(sender, tokens[id])) =>
              ap.err = "Unauthorized" /\ rv.err = "Unauthorized"

\* the only token belongs to a, b and c both hold a non-expired approval on
\* it and there is no grant: the revoke just refused came from b or c
C12_Witness ==
  /\ last.op = "revoke" /\ last.err = "Unauthorized"
  /\ DOMAIN tokens = {"0"} /\ tokens["0"].owner = "a" /\ operators = EmptyMap
  /\ SendAuthority(operators, block, "b", tokens["0"]) = "approval"
  /\ SendAuthority(operators, block, "c", tokens["0"]) = "approval"

\* the stored state without the approvals and grants that are expired at block
Pruned ==
  [Store EXCEPT
     !.tokens = [id \in DOMAIN tokens |->
                   [tokens[id] EXCEPT !.approvals =
                      SelectSeq(@, LAMBDA apr : ~is_expired(apr.expires, block))]],
     !.operators = [k \in {g \in DOMAIN operators : ~is_expired(operators[g], block)}
                      |-> operators[k]]]

\* sender has a stored approval on token, or a stored grant from its owner,
\* that is expired at block
HoldsExpired(sender, token) ==
  \/ \E i \in 1..Len(token.approvals) :
       /\ token.approvals[i].spender = sender
       /\ is_expired(token.approvals[i].expires, block)
  \/ /\ <<token.owner, sender>> \in DOMAIN operators
     /\ is_expired(operators[<<token.owner, sender>>], block)

\* C13: an approval or grant that is stored but expired gives its holder
\* nothing: every authorization outcome is the one the same call has with the
\* expired entries removed, and a holder with no other authority gets
\* Unauthorized (not Expired) from transfer, send, burn, approve and revoke.
C13_ExpiredIsAbsent ==
  \A id \in TokenIds, sender \in Addrs, other \in AnyAddr :
    /\ transfer_nft(Store, block, sender, other, id).err
         = transfer_nft(Pruned, block, sender, other, id).err
    /\ burn(Store, block, sender, id).err = burn(Pruned, block, sender, id).err
    /\ revoke(Store, block, sender, other, id).err
         = revoke(Pruned, block, sender, other, id).err
    /\ \A msg \in Payloads :
         send_nft(Store, block, sender, other, id, msg).err
           = send_nft(Pruned, block, sender, other, id, msg).err
    /\ \A expires \in ApproveExpires :
         approve(Store, block, sender, other, id, expires).err
           = approve(Pruned, block, sender, other, id, expires).err
    /\ (id \in DOMAIN tokens /\ HoldsExpired(sender, tokens[id])) =>
         /\ SendAuthority(operators, block, sender, tokens[id]) = "none" =>
              /\ transfer_nft(Store, block, sender, other, id).err = "Unauthorized"
              /\ burn(Store, block, sender, id).err = "Unauthorized"
              /\ \A msg \in Payloads :
                   send_nft(Store, block, sender, other, id, msg).err = "Unauthorized"
         /\ ~MayApprove(sender, tokens[id]) =>
              /\ revoke(Store, block, sender, other, id).err = "Unauthorized"
              /\ \A expires \in ApproveExpires :
                   approve(Store, block, sender, other, id, expires).err = "Unauthorized"

\* the only token belongs to a; the approvals of b and c on it are both
\* still stored and both expired, and there is no grant: the burn just refused
\* came from a holder of an expired approval
C13_Witness ==
  /\ last.op = "burn" /\ last.err = "Unauthorized"
  /\ DOMAIN tokens = {"0"} /\ tokens["0"].owner = "a" /\ operators = EmptyMap
  /\ HoldsExpired("b", tokens["0"]) /\ HoldsExpired("c", tokens["0"])

\* C14: a non-expired grant (A, P) lets P transfer, send, burn and approve
\* every token A owns now, whenever A came to own it; over a token owned by
\* someone else it gives P nothing; a transfer keeps the grant stored, and
\* after it P may act on the token only as its new owner or under a grant from
\* the new owner.
C14_OperatorFollowsOwner ==
  \A g \in DOMAIN operators, id \in DOMAIN tokens :
    LET A == g[1]
        P == g[2]
        token == tokens[id]
    IN ~is_expired(operators[g], block) =>
      /\ token.owner = A =>
           \A to \in ValidAddrs :
             /\ transfer_nft(Store, block, P, to, id).err = "Ok"
             /\ burn(Store, block, P, id).err = "Ok"
             /\ revoke(Store, block, P, to, id).err = "Ok"
             /\ approve(Store, block, P, to, id, NoExpiration).err = "Ok"
             /\ \A msg \in Payloads : send_nft(Store, block, P, to, id, msg).err = "Ok"
      /\ (/\ token.owner # A
          /\ SendAuthority(operators, block, P, token) = "none") =>
           \A to \in ValidAddrs :
             /\ transfer_nft(Store, block, P, to, id).err = "Unauthorized"
             /\ burn(Store, block, P, id).err = "Unauthorized"
             /\ approve(Store, block, P, to, id, NoExpiration).err = "Unauthorized"
             /\ \A msg \in Payloads :
                  send_nft(Store, block, P, to, id, msg).err = "Unauthorized"
      /\ \A sender \in Addrs, B \in ValidAddrs :
           LET r == transfer_nft(Store, block, sender, B, id) IN
           r.err = "Ok" =>
             /\ r.st.operators = operators
             /\ (token.owner = A /\ B # A) =>
                  (check_can_send(r.st, block, P, r.st.tokens[id]) = "Ok"
                     <=> \/ P = B
                         \/ /\ <<B, P>> \in DOMAIN operators
                            /\ ~is_expired(operators[<<B, P>>], block))

\* c has just moved a's token to b under the grant (a, c), the only grant
\* there is; the grant is still stored and valid, and c can no longer send the
\* token
C14_Witness ==
  /\ last.op = "transfer_nft" /\ last.err = "Ok" /\ last.note = "operator"
  /\ DOMAIN operators = {<<"a", "c">>} /\ ~is_expired(operators[<<"a", "c">>], block)
  /\ \E id \in DOMAIN tokens :
       /\ tokens[id].owner = "b"
       /\ check_can_send(Store, block, "c", tokens[id]) = "Unauthorized"

\* C15: whatever error a call returns, it has written nothing by the time it
\* fails: token records, token_count, grants and the mint policy it leaves are
\* the ones it found.
C15_ErrorsWriteNothing ==
  ForAllCalls(LAMBDA op, sender, r : r.err # "Ok" => r.st = Store /\ r.resp = NoResponse)

\* a mint has just been refused with Claimed, the error raised latest in the
\* handler, and the count and the records it found are still there
C15_Witness ==
  /\ last.op = "mint" /\ last.err = "Claimed"
  /\ token_count = 1 /\ DOMAIN tokens = {"1"}

\* C16: mint reports the first check that fails, in the order switch, cap,
\* payment, and succeeds only past all three with a valid owner address and a
\* free id slot.
C16_MintCheckOrder ==
  \A sender \in Addrs, funds \in FundsInputs, owner \in AnyAddr, ext \in Extensions :
    mint(Store, sender, funds, owner, ext).err =
      IF ~minting_allowed THEN "MintingDisabled"
      ELSE IF token_count >= max_mints THEN "MaxMintsReached"
      ELSE IF ~ExactPayment(funds) THEN "IncorrectPayment"
      ELSE IF owner \notin ValidAddrs THEN "Std"
      ELSE IF u64ToString(token_count) \in DOMAIN tokens THEN "Claimed"
      ELSE "Ok"

\* a mint has just been refused with MintingDisabled although the cap was
\* exhausted as well
C16_Witness ==
  /\ last.op = "mint" /\ last.err = "MintingDisabled"
  /\ ~minting_allowed /\ token_count >= max_mints /\ token_count > 0

\* C17: send_nft returns the outcome and leaves the state that transfer_nft
\* does for the same caller, token and destination; when it succeeds the token
\* belongs to the destination with no approvals and the response carries one
\* message, to the destination, with the caller, the token id and the payload;
\* when it fails the response carries none.
C17_SendIsTransferPlusNotice ==
  \A sender \in Addrs, to \in AnyAddr, id \in TokenIds, msg \in Payloads :
    LET t == transfer_nft(Store, block, sender, to, id)
        n == send_nft(Store, block, sender, to, id, msg)
    IN /\ n.err = t.err
       /\ n.st = t.st
       /\ t.resp.messages = <<>>
       /\ n.err = "Ok" =>
            /\ n.st.tokens[id].owner = to
            /\ n.st.tokens[id].approvals = <<>>
            /\ n.resp.messages = << [contract_addr |-> to, sender |-> sender,
                                     token_id |-> id, msg |-> msg] >>
       /\ n.err # "Ok" => n.resp.messages = <<>>

\* an approved spender has just sent the second token to b while the first
\* one stayed with a
C17_Witness ==
  /\ last.op = "send_nft" /\ last.err = "Ok" /\ last.note = "approval"
  /\ DOMAIN tokens = {"0", "1"}
  /\ tokens["0"].owner = "a" /\ tokens["1"].owner = "b" /\ tokens["1"].approvals = <<>>

\* C18: no record is stored under the id the counter names, so no mint fails
\* with Claimed.
C18_CountSlotFree ==
  /\ u64ToString(token_count) \notin DOMAIN tokens
  /\ \A sender \in Addrs, funds \in FundsInputs, owner \in OwnerInputs, ext \in Extensions :
       mint(Store, sender, funds, owner, ext).err # "Claimed"

\* the grants of ops other than those in keys are the grants of operators
\* other than those in keys
SameGrantsBut(ops, keys) ==
  /\ DOMAIN ops \ keys = DOMAIN operators \ keys
  /\ \A k \in DOMAIN operators \ keys : ops[k] = operators[k]

\* C19: approve_all and revoke_all by X write the grant (X, operator) and
\* nothing else, grants and token records alike; no call of any operation
\* touches a grant made by an address other than its caller; revoke_all of a
\* grant that is absent succeeds and changes nothing, so a second revoke_all
\* leaves what the first one left.
C19_GrantFrame ==
  /\ \A X \in Addrs, operator \in ValidAddrs :
       LET rv == revoke_all(Store, X, operator) IN
       /\ rv.err = "Ok"
       /\ rv.st = [Store EXCEPT !.operators = rv.st.operators]
       /\ SameGrantsBut(rv.st.operators, {<<X, operator>>})
       /\ <<X, operator>> \notin DOMAIN rv.st.operators
       /\ <<X, operator>> \notin DOMAIN operators => rv.st = Store
       /\ revoke_all(rv.st, X, operator).err = "Ok"
       /\ revoke_all(rv.st, X, operator).st = rv.st
       /\ \A expires \in ApproveAllExpires :
            LET ap == approve_all(Store, block, X, operator, expires) IN
            /\ ap.st = [Store EXCEPT !.operators = ap.st.operators]
            /\ SameGrantsBut(ap.st.operators, {<<X, operator>>})
  /\ ForAllCalls(LAMBDA op, sender, r :
       SameGrantsBut(r.st.operators, {k \in DOMAIN operators \cup DOMAIN r.st.operators :
                                        k[1] = sender}))

\* a revoke_all has just succeeded and the one grant the bounds allow is still
\* stored: the call named a grant that was absent
C19_Witness ==
  /\ last.op = "revoke_all" /\ last.err = "Ok"
  /\ DOMAIN operators = {<<"a", "c">>}

\* C20: while set_mint_config has not been called, the counter mint reads is
\* the number of live records (those minted and not burned since), and that
\* number is at most max_mints.
C20_CountIsLiveRecords ==
  ~configured =>
    /\ token_count_load(Store) = Cardinality(DOMAIN tokens)
    /\ Cardinality(DOMAIN tokens) <= max_mints

\* two mints and then a burn, with the mint policy as instantiated: one record
\* is live and the counter reads 1
C20_Witness ==
  /\ ~configured /\ last.op = "burn" /\ last.err = "Ok"
  /\ Len(assigned) = 2 /\ Cardinality(DOMAIN tokens) = 1 /\ token_count = 1

====
